---------------------------- MODULE Spec2Model ----------------------------
(***************************************************************************)
(* Model of utils/analysis.py: the corpus analysis pipeline.               *)
(*                                                                         *)
(* Every public function of the module is a pure, synchronous call, so a   *)
(* behaviour is one call: Init draws the arguments, one action runs the    *)
(* whole function body and leaves either a return value or the exception   *)
(* that ended it.  Each component has its own specification (its own set   *)
(* of argument values); the actions are shared.                            *)
(*                                                                         *)
(* Numbers.  Weights and scores are non-negative integers (TF-IDF weights  *)
(* are non-negative reals; only their order, their zero pattern and        *)
(* ratios of sums of products are read here).  A quotient the code         *)
(* computes in floating point is kept exact as a pair <<num, den>>.        *)
(***************************************************************************)
EXTENDS Integers, Sequences, FiniteSets, TLC

VARIABLES
    pc,           \* "call" before the body runs, then "return" or "raise"
    args,         \* the arguments of the call (field fn names the function)
    ret,          \* the returned value, or [error |-> <exception class>]
    embed_calls   \* the TSNE / MDS fits the call handed to scikit-learn

vars == <<pc, args, ret, embed_calls>>

None == "None"

(***************************************************************************)
(* Generic helpers                                                         *)
(***************************************************************************)
Min(a, b) == IF a <= b THEN a ELSE b

Max(a, b) == IF a >= b THEN a ELSE b

Range(s) == {s[i] : i \in 1..Len(s)}

SeqsUpTo(S, n) == UNION {[1..k -> S] : k \in 0..n}

\* All orderings of the finite set S, as sequences.
PermSeqs(S) ==
    {p \in [1..Cardinality(S) -> S] : \A i, j \in 1..Cardinality(S) : p[i] = p[j] => i = j}

RECURSIVE SumOver(_, _)
SumOver(f, S) ==
    IF S = {} THEN 0
    ELSE LET x == CHOOSE y \in S : TRUE IN f[x] + SumOver(f, S \ {x})

(***************************************************************************)
(* numpy / pandas sorting.  argsort() and sort_values() default to         *)
(* kind="quicksort", which is not stable: among equal keys any order may   *)
(* come out.  OrdersOf gives every index order that is sorted by key.      *)
(***************************************************************************)
RECURSIVE OrdersOf(_, _, _)
OrdersOf(key, idx, ascending) ==
    IF idx = {} THEN {<<>>}
    ELSE LET first == IF ascending
                      THEN CHOOSE v \in {key[i] : i \in idx} : \A i \in idx : v <= key[i]
                      ELSE CHOOSE v \in {key[i] : i \in idx} : \A i \in idx : v >= key[i]
             group == {i \in idx : key[i] = first}
         IN  {a \o b : a \in PermSeqs(group), b \in OrdersOf(key, idx \ group, ascending)}

\* ndarray.argsort(): indices that sort key ascending.
ArgSort(key) == OrdersOf(key, DOMAIN key, TRUE)

\* seq[-n:] of Python, for any integer n (n = 0 gives the whole sequence).
LastN(s, n) ==
    LET start == IF n > 0 THEN Max(Len(s) - n, 0) ELSE Min(-n, Len(s))
    IN  SubSeq(s, start + 1, Len(s))

\* seq[::-1]
Reversed(s) == [i \in 1..Len(s) |-> s[Len(s) + 1 - i]]

\* seq[:n] of Python / head(n) of pandas, for any integer n.
FirstN(s, n) ==
    IF n >= 0 THEN SubSeq(s, 1, Min(n, Len(s)))
    ELSE SubSeq(s, 1, Max(Len(s) + n, 0))

(***************************************************************************)
(* get_top_terms                                                           *)
(***************************************************************************)
MaxScoredTerms == 3
MaxScore == 2
MaxNTerms == 4

\* The Python types a caller may pass as tfidf_results.
InputTypes == {"DataFrame", "Series", "dict", "list", "tuple", "NoneType"}

\* One scored term: the index key (term) and its score.
ScoredItems ==
    UNION {[1..n -> 0..MaxScore] : n \in 0..MaxScoredTerms}

TopTermsArgs ==
    [fn : {"get_top_terms"},
     type : InputTypes,
     scores : ScoredItems,          \* scores[t] is the score of term t
     n_terms : -1..MaxNTerms]

\* A mutation of SortValuesDescending: ascending=False dropped.
SortValuesAscending(scores) == OrdersOf(scores, DOMAIN scores, TRUE)

\* sort_values(..., ascending=False): the term keys in descending score order.
SortValuesDescending(scores) == OrdersOf(scores, DOMAIN scores, FALSE)

\* A mutation of IsRankedCollection: any sized container is let through.
IsRankedCollectionLoose(type) == type \in {"DataFrame", "Series", "dict", "list", "tuple"}

\* isinstance(tfidf_results, pd.DataFrame) or isinstance(..., (pd.Series, dict))
IsRankedCollection(type) == type \in {"DataFrame", "Series", "dict"}

GetTopTerms ==
    /\ pc = "call"
    /\ args.fn = "get_top_terms"
    /\ IF IsRankedCollection(args.type)
       THEN \E tfidf_scores_sorted \in SortValuesDescending(args.scores) :
                /\ ret' = FirstN(tfidf_scores_sorted, args.n_terms)
                /\ pc' = "return"
       ELSE /\ ret' = [error |-> "ValueError"]
            /\ pc' = "raise"
    /\ UNCHANGED <<args, embed_calls>>

InitTopTerms ==
    /\ pc = "call"
    /\ args \in TopTermsArgs
    /\ ret = None
    /\ embed_calls = <<>>

NextTopTerms == GetTopTerms

SpecTopTerms == InitTopTerms /\ [][NextTopTerms]_vars

\* C1: for an accepted input and N >= 0, get_top_terms returns exactly
\* min(N, number of scored terms) distinct terms, in descending score order,
\* and no term left out scores higher than a returned one.
TopTermsLengthAndOrder ==
    (pc = "return" /\ args.fn = "get_top_terms" /\ args.n_terms >= 0) =>
        /\ Len(ret) = Min(args.n_terms, Len(args.scores))
        /\ Range(ret) \subseteq DOMAIN args.scores
        /\ \A i, j \in 1..Len(ret) : ret[i] = ret[j] => i = j
        /\ \A k \in 1..(Len(ret) - 1) : args.scores[ret[k]] >= args.scores[ret[k + 1]]
        /\ \A t \in (DOMAIN args.scores) \ Range(ret) :
               \A r \in Range(ret) : args.scores[t] <= args.scores[r]

\* A call that truncates an unsorted input with distinct scores.
TopTermsWitness ==
    /\ pc = "return"
    /\ args.fn = "get_top_terms"
    /\ args.type = "dict"
    /\ args.scores = <<1, 2, 0>>
    /\ args.n_terms = 2
    /\ ret = <<2, 1>>

\* C6: get_top_terms raises ValueError, and returns no term list, exactly
\* when the input is none of DataFrame, Series, dict, whatever N is.
TopTermsRejectsOtherTypes ==
    (pc # "call" /\ args.fn = "get_top_terms") =>
        /\ (pc = "raise") <=> (args.type \notin {"DataFrame", "Series", "dict"})
        /\ (pc = "raise") => ret = [error |-> "ValueError"]
        /\ (pc = "return") => ret \in Seq(DOMAIN args.scores)

\* A plain list of (term, score) tuples is refused.
TopTermsRejectWitness ==
    /\ pc = "raise"
    /\ args.fn = "get_top_terms"
    /\ args.type = "list"
    /\ Len(args.scores) = 2
    /\ ret = [error |-> "ValueError"]

(***************************************************************************)
(* Term-weight matrices.  A matrix is [nrows, ncols, data], data[d][t] the *)
(* weight of term t (column) in document d (row).  scipy's sparse matrix   *)
(* as TfidfVectorizer builds it stores exactly the non-zero cells.         *)
(***************************************************************************)
Weights == {0, 1}

MatricesOf(nrows, ncols) ==
    {[nrows |-> nrows, ncols |-> ncols, data |-> x] :
        x \in [1..nrows -> [1..ncols -> Weights]]}

\* tfidf_matrix.T
Transpose(m) ==
    [nrows |-> m.ncols, ncols |-> m.nrows,
     data |-> [t \in 1..m.ncols |-> [d \in 1..m.nrows |-> m.data[d][t]]]]

\* tfidf_matrix.mean(axis=0).A1, times nrows: one entry per column (term).
\* The common divisor nrows changes neither the order nor the ties.
MeanAxis0(m) ==
    [t \in 1..m.ncols |-> SumOver([d \in 1..m.nrows |-> m.data[d][t]], 1..m.nrows)]

\* tfidf_matrix.mean(axis=1).A1, times ncols: one entry per row (document).
MeanAxis1(m) ==
    [d \in 1..m.nrows |-> SumOver(m.data[d], 1..m.ncols)]

Dot(u, v) == SumOver([k \in DOMAIN u |-> u[k] * v[k]], DOMAIN u)

\* sklearn cosine_similarity of two non-negative vectors, squared and exact:
\* <<num, den>> with similarity^2 = num / den.  A zero vector is left as it
\* is by the normalisation, so its similarity to anything is 0.
CosineSimilaritySq(u, v) ==
    IF Dot(u, u) = 0 \/ Dot(v, v) = 0 THEN <<0, 1>>
    ELSE <<Dot(u, v) * Dot(u, v), Dot(u, u) * Dot(v, v)>>

\* scikit-learn's MDS(dissimilarity="precomputed").fit_transform on an
\* n x n matrix: check_array refuses an empty array; SMACOF itself has no
\* lower limit on the number of samples.
MdsFitRaises(n_samples) == n_samples = 0

(***************************************************************************)
(* plot_word_similarities_mds                                              *)
(***************************************************************************)
MaxDocs == 2
MaxTerms == 3

\* similarity_threshold as <<num, den>>; 3/10 is the default.
Thresholds == {<<0, 1>>, <<3, 10>>, <<1, 2>>, <<1, 1>>}

MdsArgs ==
    [fn : {"plot_word_similarities_mds"},
     tfidf_matrix : UNION {MatricesOf(MaxDocs, t) : t \in 1..MaxTerms},
     n_terms : 0..(MaxTerms + 1),
     similarity_threshold : Thresholds]

\* for i in range(n): for j in range(i + 1, n): the pairs in loop order.
RECURSIVE PairLoop(_, _, _)
PairLoop(i, j, n) ==
    IF i > n THEN <<>>
    ELSE IF j > n THEN PairLoop(i + 1, i + 2, n)
    ELSE <<<<i, j>>>> \o PairLoop(i, j + 1, n)

\* A mutation of ExceedsThreshold: >= for >.
ReachesThreshold(simSq, thr) ==
    thr[1] <= 0 \/ simSq[1] * thr[2] * thr[2] >= thr[1] * thr[1] * simSq[2]

\* similarities[i, j] > similarity_threshold, for a similarity >= 0 given
\* by its square and a threshold num/den with den > 0.
ExceedsThreshold(simSq, thr) ==
    IF thr[1] < 0 THEN TRUE
    ELSE simSq[1] * thr[2] * thr[2] > thr[1] * thr[1] * simSq[2]

PlotWordSimilaritiesMds ==
    /\ pc = "call"
    /\ args.fn = "plot_word_similarities_mds"
    /\ \E order \in ArgSort(MeanAxis0(args.tfidf_matrix)) :
        LET top_indices == Reversed(LastN(order, args.n_terms))
            term_vectors == [i \in 1..Len(top_indices) |->
                                Transpose(args.tfidf_matrix).data[top_indices[i]]]
            similarities == [i \in 1..Len(top_indices) |->
                                [j \in 1..Len(top_indices) |->
                                    CosineSimilaritySq(term_vectors[i], term_vectors[j])]]
            drawn(p) == ExceedsThreshold(similarities[p[1]][p[2]],
                                         args.similarity_threshold)
        IN  /\ embed_calls' = <<[kind |-> "mds", n_samples |-> Len(top_indices)]>>
            /\ IF MdsFitRaises(Len(top_indices))
               THEN /\ pc' = "raise"
                    /\ ret' = [error |-> "ValueError"]
               ELSE /\ pc' = "return"
                    /\ ret' = [top_terms |-> top_indices,
                               n_coords |-> Len(top_indices),
                               lines |-> SelectSeq(PairLoop(1, 2, Len(top_indices)), drawn)]
    /\ UNCHANGED args

InitMds ==
    /\ pc = "call"
    /\ args \in MdsArgs
    /\ ret = None
    /\ embed_calls = <<>>

NextMds == PlotWordSimilaritiesMds

SpecMds == InitMds /\ [][NextMds]_vars

\* The weights of the term at position i of the plotted terms.
PlottedVector(i) == [d \in 1..args.tfidf_matrix.nrows |-> args.tfidf_matrix.data[d][ret.top_terms[i]]]

\* cos(u, v) > num/den, cos(u, v) = num/den, for non-negative vectors and 0 <= num/den.
CosAbove(u, v, thr) ==
    /\ Dot(u, u) > 0 /\ Dot(v, v) > 0
    /\ Dot(u, v) * Dot(u, v) * thr[2] * thr[2] > thr[1] * thr[1] * Dot(u, u) * Dot(v, v)

CosEqual(u, v, thr) ==
    IF Dot(u, u) = 0 \/ Dot(v, v) = 0 THEN thr[1] = 0
    ELSE Dot(u, v) * Dot(u, v) * thr[2] * thr[2] = thr[1] * thr[1] * Dot(u, u) * Dot(v, v)

ReportMatrices ==
    UNION {MatricesOf(d, t) : d \in 0..MaxDocs, t \in 0..MaxTerms}

ReportArgs ==
    [fn : {"create_report"},
     tfidf_matrix : ReportMatrices,
     freq_df : {"freq_df"},            \* handed through untouched
     vocab_stats : {"vocab_stats"}]    \* handed through untouched

\* sorted(tfidf_scores, key=lambda x: x[1], reverse=True): Python's sort is
\* stable, also with reverse=True, so equal scores keep their input order.
SortedByScoreReverse(key) ==
    CHOOSE p \in OrdersOf(key, DOMAIN key, FALSE) :
        \A i, j \in 1..Len(p) : (i < j /\ key[p[i]] = key[p[j]]) => p[i] < p[j]

\* get_mean_tfidf(tfidf_matrix, feature_names, return_df=True): the rows
\* (term, score) by descending score, score = <<column sum, nrows>>.
GetMeanTfidf(m) ==
    LET mean_tfidf == MeanAxis0(m)
        order == SortedByScoreReverse(mean_tfidf)
    IN  [k \in 1..m.ncols |->
            [term |-> order[k], score |-> <<mean_tfidf[order[k]], m.nrows>>]]

\* tfidf_matrix.nnz: the number of stored (non-zero) cells.
Nnz(m) == Cardinality({c \in (1..m.nrows) \X (1..m.ncols) : m.data[c[1]][c[2]] # 0})

\* A mutation of MatrixSparsity: the share of stored cells, "1 -" forgotten.
MatrixDensity(m) == <<100 * Nnz(m), m.nrows * m.ncols>>

\* 100 * (1 - nnz / (shape[0] * shape[1])) as <<num, den>>.
MatrixSparsity(m) == <<100 * (m.nrows * m.ncols - Nnz(m)), m.nrows * m.ncols>>

ReportFields ==
    {"vocab_stats", "freq_distribution", "tf_idf_scores", "vectorizer",
     "matrix_shape", "matrix_sparsity"}

\* The dict display is evaluated entry by entry and returned only when every
\* entry has its value.  With no row, mean(axis=0) divides 1.0 by shape[0];
\* with no column, nnz is divided by shape[0] * shape[1] = 0: both are a
\* ZeroDivisionError of Python numbers.
CreateReport ==
    /\ pc = "call"
    /\ args.fn = "create_report"
    /\ LET m == args.tfidf_matrix IN
       IF m.nrows = 0 \/ m.nrows * m.ncols = 0
       THEN /\ pc' = "raise"
            /\ ret' = [error |-> "ZeroDivisionError"]
       ELSE /\ pc' = "return"
            /\ ret' = [vocab_stats |-> args.vocab_stats,
                       freq_distribution |-> args.freq_df,
                       tf_idf_scores |-> GetMeanTfidf(m),
                       vectorizer |-> None,
                       matrix_shape |-> <<m.nrows, m.ncols>>,
                       matrix_sparsity |-> MatrixSparsity(m)]
    /\ UNCHANGED <<args, embed_calls>>

InitReport ==
    /\ pc = "call"
    /\ args \in ReportArgs
    /\ ret = None
    /\ embed_calls = <<>>

NextReport == CreateReport

SpecReport == InitReport /\ [][NextReport]_vars

\* The non-zero cells of the matrix passed in, counted row by row.
NonZeroCells ==
    SumOver([d \in 1..args.tfidf_matrix.nrows |->
                Cardinality({t \in 1..args.tfidf_matrix.ncols :
                                args.tfidf_matrix.data[d][t] > 0})],
            1..args.tfidf_matrix.nrows)

\* C8: create_report returns all six fields or raises and returns nothing
\* (it raises for a matrix without rows or without columns); the sparsity
\* returned is 100 * (1 - nonzero cells / cells), within [0, 100], and is
\* 100 only for a matrix without a non-zero cell.
SparsityInRangeAndReportComplete ==
    (pc # "call" /\ args.fn = "create_report") =>
        LET cells == args.tfidf_matrix.nrows * args.tfidf_matrix.ncols IN
        /\ pc = "raise" <=> cells = 0
        /\ pc = "raise" => ret = [error |-> "ZeroDivisionError"]
        /\ pc = "return" =>
            /\ DOMAIN ret = ReportFields
            /\ ret.matrix_shape = <<args.tfidf_matrix.nrows, args.tfidf_matrix.ncols>>
            /\ Len(ret.tf_idf_scores) = args.tfidf_matrix.ncols
            /\ ret.matrix_sparsity[2] = cells
            /\ ret.matrix_sparsity[1] = 100 * (cells - NonZeroCells)
            /\ 0 <= ret.matrix_sparsity[1]
            /\ ret.matrix_sparsity[1] <= 100 * ret.matrix_sparsity[2]
            /\ (ret.matrix_sparsity[1] = 100 * ret.matrix_sparsity[2]) => NonZeroCells = 0

\* A report on a matrix with zero and non-zero cells: sparsity strictly
\* between 0 and 100.
SparsityWitness ==
    /\ pc = "return"
    /\ args.fn = "create_report"
    /\ args.tfidf_matrix.nrows = 2 /\ args.tfidf_matrix.ncols = 3
    /\ ret.matrix_sparsity = <<200, 6>>

(***************************************************************************)
(* Texts.  A text is what the vectorizer's tokenizer makes of it: the bag  *)
(* of its tokens, [token -> occurrences].  Tokens are numbered in          *)
(* alphabetical order; token 0 is a stop word ("the").                     *)
(***************************************************************************)
StopWords == {0}

TokensOf(doc) == {t \in DOMAIN doc : doc[t] > 0}

\* The tokens of the corpus that are no stop words.
CorpusTerms(texts) == UNION {TokensOf(texts[d]) : d \in 1..Len(texts)} \ StopWords

\* get_feature_names_out(): the kept terms in alphabetical order.
FeatureNames(terms) ==
    IF terms = {} THEN <<>>
    ELSE LET last == CHOOSE x \in terms : \A y \in terms : y <= x
         IN  SelectSeq([i \in 1..last |-> i], LAMBDA t : t \in terms)

Occurrences(doc, t) == IF t \in DOMAIN doc THEN doc[t] ELSE 0

(***************************************************************************)
(* generate_tfidf_matrix                                                   *)
(***************************************************************************)
MaxDocLen == 2
MaxCorpus == 2
MaxK == 2
MaxM == 2

\* The alphabet of the corpora: the stop word and two terms.
TfidfTokens == {0, 1, 2}

TfidfDocs ==
    {doc \in [TfidfTokens -> 0..MaxDocLen] : SumOver(doc, TfidfTokens) <= MaxDocLen}

TfidfArgs ==
    [fn : {"generate_tfidf_matrix"},
     texts : SeqsUpTo(TfidfDocs, MaxCorpus),
     max_terms : 1..MaxK,
     min_doc_freq : 1..MaxM]

\* A mutation of DocumentFrequency: occurrences counted instead of documents.
TermFrequency(texts, t) ==
    SumOver([d \in 1..Len(texts) |-> Occurrences(texts[d], t)], 1..Len(texts))

\* dfs of _limit_features: the number of documents the term occurs in.
DocumentFrequency(texts, t) ==
    Cardinality({d \in 1..Len(texts) : Occurrences(texts[d], t) > 0})

\* tfs of _limit_features: the occurrences of the term in the corpus.
CorpusFrequency(texts, t) ==
    SumOver([d \in 1..Len(texts) |-> Occurrences(texts[d], t)], 1..Len(texts))

\* (-tfs[mask]).argsort()[:limit]: the limit most frequent among the terms
\* that passed min_df; quicksort leaves the choice among equals open.
LimitFeatures(texts, passed, limit) ==
    IF Cardinality(passed) <= limit THEN {passed}
    ELSE {kept \in SUBSET passed :
            /\ Cardinality(kept) = limit
            /\ \A a \in kept : \A b \in passed \ kept :
                   CorpusFrequency(texts, a) >= CorpusFrequency(texts, b)}

\* fit_transform: one row per text, one column per feature name.  A cell
\* holds the term count; TF-IDF multiplies it by idf > 0 and by the row's
\* normalisation > 0, which changes no zero into a non-zero or back.
WeightMatrix(texts, names) ==
    [nrows |-> Len(texts), ncols |-> Len(names),
     data |-> [d \in 1..Len(texts) |->
                  [j \in 1..Len(names) |-> Occurrences(texts[d], names[j])]]]

\* TfidfVectorizer(stop_words, max_features=max_terms, min_df=min_doc_freq)
\* .fit_transform(texts): ValueError for an empty vocabulary, for
\* max_df * n_docs < min_df, and when no term is left after pruning.
GenerateTfidfMatrix ==
    /\ pc = "call"
    /\ args.fn = "generate_tfidf_matrix"
    /\ LET texts == args.texts
           vocabulary == CorpusTerms(texts)
           passed == {t \in vocabulary :
                         /\ DocumentFrequency(texts, t) >= args.min_doc_freq
                         /\ DocumentFrequency(texts, t) <= Len(texts)}
       IN  IF \/ vocabulary = {}
              \/ Len(texts) < args.min_doc_freq
              \/ passed = {}
           THEN /\ pc' = "raise"
                /\ ret' = [error |-> "ValueError"]
           ELSE \E kept \in LimitFeatures(texts, passed, args.max_terms) :
                    /\ pc' = "return"
                    /\ ret' = [tfidf_matrix |-> WeightMatrix(texts, FeatureNames(kept)),
                               feature_names |-> FeatureNames(kept)]
    /\ UNCHANGED <<args, embed_calls>>

InitTfidf ==
    /\ pc = "call"
    /\ args \in TfidfArgs
    /\ ret = None
    /\ embed_calls = <<>>

NextTfidf == GenerateTfidfMatrix

SpecTfidf == InitTfidf /\ [][NextTfidf]_vars

\* The texts of the corpus passed in that contain the term.
DocsContaining(t) ==
    {d \in 1..Len(args.texts) : t \in DOMAIN args.texts[d] /\ args.texts[d][t] >= 1}

\* C3: when generate_tfidf_matrix returns, the vocabulary has at most
\* max_terms distinct terms, each occurring in at least min_doc_freq texts,
\* and the matrix has one row per text and one column per vocabulary term,
\* column j being non-zero exactly in the texts that contain term j.
VocabularyWithinCutoffs ==
    (pc = "return" /\ args.fn = "generate_tfidf_matrix") =>
        LET names == ret.feature_names
            m == ret.tfidf_matrix
        IN  /\ Len(names) <= args.max_terms
            /\ Len(names) >= 1
            /\ \A i, j \in 1..Len(names) : names[i] = names[j] => i = j
            /\ \A j \in 1..Len(names) :
                   Cardinality(DocsContaining(names[j])) >= args.min_doc_freq
            /\ m.ncols = Len(names)
            /\ m.nrows = Len(args.texts)
            /\ DOMAIN m.data = 1..Len(args.texts)
            /\ \A d \in 1..m.nrows :
                   /\ DOMAIN m.data[d] = 1..Len(names)
                   /\ \A j \in 1..m.ncols :
                          m.data[d][j] > 0 <=> d \in DocsContaining(names[j])

\* Two texts, min_doc_freq = 2: term 1 occurs in the first text only and is
\* dropped, the stop word occurs in the second and is no term, term 2
\* occurs in both and is the vocabulary.
VocabularyWitness ==
    /\ pc = "return"
    /\ args.fn = "generate_tfidf_matrix"
    /\ args.min_doc_freq = 2
    /\ args.max_terms = 1
    /\ Len(args.texts) = 2
    /\ args.texts[1] = (0 :> 0 @@ 1 :> 1 @@ 2 :> 1)
    /\ args.texts[2] = (0 :> 1 @@ 1 :> 0 @@ 2 :> 1)
    /\ ret.feature_names = <<2>>

(***************************************************************************)
(* analyze_vocabulary                                                      *)
(***************************************************************************)
TopRows == 1000
SmallVocab == 30
BeyondTop == 1
MaxTexts == 2
MaxMinFreq == 2

\* Vocabulary sizes tried: the small ones, and those around TopRows.
VocabSizes == (0..SmallVocab) \cup ((TopRows - 1)..(TopRows + BeyondTop))

\* Text i of a corpus of d texts over the terms 1..n: the stop word, term 1
\* and every d-th term, so that the d texts together hold all n terms.
VocabText(n, d, i) ==
    [t \in 0..n |-> IF t <= 1 \/ t % d = i - 1 THEN 1 ELSE 0]

\* texts stands for the texts as preprocess_text returned them.
VocabularyArgs ==
    [fn : {"analyze_vocabulary"},
     texts : {[i \in 1..d |-> VocabText(n, d, i)] : n \in VocabSizes, d \in 0..MaxTexts},
     min_freq : 1..MaxMinFreq]

\* sum(f[lo..hi]), by halving.
RECURSIVE SumRange(_, _, _)
SumRange(f, lo, hi) ==
    IF lo > hi THEN 0
    ELSE IF lo = hi THEN f[lo]
    ELSE LET mid == (lo + hi) \div 2
         IN  SumRange(f, lo, mid) + SumRange(f, mid + 1, hi)

\* Series.cumsum() over f[lo..hi], started at base.
RECURSIVE CumSumFrom(_, _, _, _)
CumSumFrom(f, lo, hi, base) ==
    IF lo > hi THEN <<>>
    ELSE IF lo = hi THEN <<base + f[lo]>>
    ELSE LET mid == (lo + hi) \div 2
             left == CumSumFrom(f, lo, mid, base)
         IN  left \o CumSumFrom(f, mid + 1, hi, left[Len(left)])

\* Counter(words).items(): each distinct word with the number of times it
\* is in the list, in the order of first appearance.
Counter(words) ==
    LET firsts == SelectSeq([i \in 1..Len(words) |-> i],
                            LAMBDA i : \A j \in 1..(i - 1) : words[j] # words[i])
    IN  [k \in 1..Len(firsts) |->
            [word |-> words[firsts[k]],
             frequency |-> Cardinality({j \in 1..Len(words) : words[j] = words[firsts[k]]})]]

\* freq_df.sort_values("frequency", ascending=False).  Rows of equal
\* frequency are kept in their order: the order quicksort leaves them in is
\* not specified, and they differ in the word column only.
RECURSIVE SortByFrequency(_, _)
SortByFrequency(rows, freqs) ==
    IF freqs = {} THEN <<>>
    ELSE LET top == CHOOSE v \in freqs : \A w \in freqs : w <= v
         IN  SelectSeq(rows, LAMBDA r : r.frequency = top)
                \o SortByFrequency(rows, freqs \ {top})

\* A mutation of TopSlice: one row short.
TopSliceShort(rows) == SubSeq(rows, 1, Min(TopRows - 1, Len(rows)))

\* freq_df.iloc[:1000]
TopSlice(rows) == SubSeq(rows, 1, Min(TopRows, Len(rows)))

\* The elements of a sequence, evaluated once.
Evaluated(s) == SubSeq(s, 1, Len(s))

\* freq_df with its percentage and cumulative_percentage columns, each
\* <<num, total_words>>.
FrequencyTable(sorted, cumulative, total_words) ==
    [k \in 1..Len(sorted) |->
        [word |-> sorted[k].word,
         frequency |-> sorted[k].frequency,
         percentage |-> <<sorted[k].frequency * 100, total_words>>,
         cumulative_percentage |-> <<cumulative[k], total_words>>]]

\* freq_df.iloc[:1000]["frequency"].sum() / total_words * 100
\* if len(freq_df) >= 1000 else 100
CoverageTop1000(freq_df, top, total_words) ==
    IF Len(freq_df) >= TopRows
    THEN <<SumRange([k \in 1..Len(top) |-> top[k].frequency], 1, Len(top)) * 100,
           total_words>>
    ELSE <<100, 1>>

\* TfidfVectorizer(stop_words="english").fit(texts) raises ValueError when
\* no term is left (no text, or stop words only).  Each \E below names one
\* local of the function.
AnalyzeVocabulary ==
    /\ pc = "call"
    /\ args.fn = "analyze_vocabulary"
    /\ \E words \in {FeatureNames(CorpusTerms(args.texts))} :
       IF words = <<>>
       THEN /\ pc' = "raise"
            /\ ret' = [error |-> "ValueError"]
       ELSE
       \E word_freq \in {Evaluated(Counter(words))} :
       \E sorted \in {SortByFrequency(word_freq,
                          {word_freq[k].frequency : k \in 1..Len(word_freq)})} :
       \E cumulative \in {CumSumFrom([k \in 1..Len(sorted) |-> sorted[k].frequency * 100],
                                     1, Len(sorted), 0)} :
       \E freq_df \in {Evaluated(FrequencyTable(sorted, cumulative, Len(words)))} :
       \E top \in {TopSlice(freq_df)} :
           /\ pc' = "return"
           /\ ret' = [freq_df |-> freq_df,
                      stats |-> [total_words |-> Len(words),
                                 unique_words |-> Len(word_freq),
                                 words_min_freq |->
                                     Cardinality({k \in 1..Len(word_freq) :
                                         word_freq[k].frequency >= args.min_freq}),
                                 coverage_top_1000 |->
                                     CoverageTop1000(freq_df, top, Len(words))]]
    /\ UNCHANGED <<args, embed_calls>>

InitVocabulary ==
    /\ pc = "call"
    /\ args \in VocabularyArgs
    /\ ret = None
    /\ embed_calls = <<>>

NextVocabulary == AnalyzeVocabulary

SpecVocabulary == InitVocabulary /\ [][NextVocabulary]_vars

\* C7: in a report analyze_vocabulary returns, the percentages add up to
\* 100, the rows are in descending frequency order, the cumulative
\* percentage never decreases along them and ends at 100, and
\* coverage_top_1000 is 100 below 1000 rows and the cumulative percentage
\* of row 1000 otherwise.
VocabularyReportConsistent ==
    (pc = "return" /\ args.fn = "analyze_vocabulary") =>
        LET df == ret.freq_df
            n == Len(df)
            cov == ret.stats.coverage_top_1000
        IN  /\ n >= 1
            /\ \A k \in 1..n : df[k].percentage[2] = n /\ df[k].cumulative_percentage[2] = n
            /\ SumRange([k \in 1..n |-> df[k].percentage[1]], 1, n) = 100 * n
            /\ \A k \in 1..(n - 1) : df[k].frequency >= df[k + 1].frequency
            /\ \A k \in 1..(n - 1) :
                   df[k].cumulative_percentage[1] <= df[k + 1].cumulative_percentage[1]
            /\ df[1].cumulative_percentage[1] = df[1].percentage[1]
            /\ df[n].cumulative_percentage[1] = 100 * n
            /\ n < 1000 => cov[1] = 100 * cov[2]
            /\ n >= 1000 =>
                   cov[1] * df[1000].cumulative_percentage[2]
                       = df[1000].cumulative_percentage[1] * cov[2]

\* A corpus of two texts with more than 1000 terms between them: the top
\* 1000 rows cover less than the whole.
VocabularyReportWitness ==
    /\ pc = "return"
    /\ args.fn = "analyze_vocabulary"
    /\ Len(args.texts) = 2
    /\ Len(ret.freq_df) = 1001
    /\ ret.stats.coverage_top_1000 = <<100000, 1001>>

(***************************************************************************)
(* t-SNE                                                                   *)
(***************************************************************************)
PerplexityCap == 30

\* scikit-learn's TSNE(perplexity=p).fit_transform on n_samples vectors,
\* p = <<num, den>>: it refuses a perplexity that is not positive, and
\* with fewer than two samples it has no neighbour to look for.
TsneFitRaises(perplexity, n_samples) == n_samples < 2 \/ perplexity[1] <= 0

\* plot_similarities: perplexity=min(30, len(labels) - 1)
SimilaritiesPerplexity(n_labels) == <<Min(PerplexityCap, n_labels - 1), 1>>

\* plot_word_similarities_tsne: perplexity=min(30, len(feature_names) / 4),
\* in quarters.  The function's own perplexity parameter is not read.
WordSimilaritiesPerplexity(n_features) == <<Min(4 * PerplexityCap, n_features), 4>>

(***************************************************************************)
(* plot_word_similarities_tsne                                             *)
(***************************************************************************)
PlotWordSimilaritiesTsne ==
    /\ pc = "call"
    /\ args.fn = "plot_word_similarities_tsne"
    /\ \E order \in ArgSort(MeanAxis0(args.tfidf_matrix)) :
        LET top_indices == Reversed(LastN(order, args.n_highlight))
            perplexity == WordSimilaritiesPerplexity(args.tfidf_matrix.ncols)
            n_samples == Transpose(args.tfidf_matrix).nrows
        IN  /\ embed_calls' = <<[kind |-> "tsne", perplexity |-> perplexity,
                                 n_samples |-> n_samples]>>
            /\ IF TsneFitRaises(perplexity, n_samples)
               THEN /\ pc' = "raise"
                    /\ ret' = [error |-> "ValueError"]
               ELSE /\ pc' = "return"
                    /\ ret' = [n_coords |-> n_samples, top_indices |-> top_indices]
    /\ UNCHANGED args

(***************************************************************************)
(* plot_similarities                                                       *)
(***************************************************************************)
SetOneColors == 9

\* The top_terms argument: None, or an int.
NoneArg == [type |-> "NoneType", value |-> 0]

IntArg(n) == [type |-> "int", value |-> n]

\* top_terms and isinstance(top_terms, int)
IsTruthyInt(x) == x.type = "int" /\ x.value # 0

\* labels[i] for i in top_indices / coords[top_indices]: every index must
\* be one of the sequence indexed.
IndexInRange(indices, length) == \A k \in 1..Len(indices) : indices[k] \in 1..length

\* color_map: the unique labels, in the order the set gives them, zipped
\* with as many Set1 colours (zip stops at the shorter of the two).
ColorMapOf(unique_labels) ==
    [k \in 1..Min(Len(unique_labels), SetOneColors) |-> unique_labels[k]]

\* color_map[label]: the number of the label's colour, 0 when it has none.
ColorOf(color_map, label) ==
    IF \E k \in 1..Len(color_map) : color_map[k] = label
    THEN CHOOSE k \in 1..Len(color_map) : color_map[k] = label
    ELSE 0

\* Lines 391-460, once the coordinates exist: the emphasis subset, its
\* colours, the scatter plot and the legend.  result is the value the
\* function returns or the exception it ends with.
AnnotateAndDraw(n_coords, result) ==
    \E order \in (IF IsTruthyInt(args.top_terms)
                  THEN ArgSort(IF args.is_documents
                               THEN MeanAxis0(args.tfidf_matrix)
                               ELSE MeanAxis1(args.tfidf_matrix))
                  ELSE {<<>>}) :
    \E unique_labels \in PermSeqs(Range(args.labels)) :
        LET selects == IsTruthyInt(args.top_terms)
            top_indices == IF selects THEN Reversed(LastN(order, args.top_terms.value))
                           ELSE [i \in 1..Len(args.labels) |-> i]
            in_range == \/ ~selects
                        \/ /\ IndexInRange(top_indices, Len(args.labels))
                           /\ IndexInRange(top_indices, n_coords)
            labels_to_annotate == [k \in 1..Len(top_indices) |-> args.labels[top_indices[k]]]
            shown == SelectSeq(unique_labels, LAMBDA l : l \in Range(labels_to_annotate))
            color_map == IF args.label_color THEN ColorMapOf(shown) ELSE None
            label_colors == [k \in 1..Len(labels_to_annotate) |->
                                ColorOf(color_map, labels_to_annotate[k])]
        IN  IF ~in_range
            THEN result = [error |-> "IndexError"]
            ELSE IF args.label_color /\ \E k \in 1..Len(label_colors) : label_colors[k] = 0
            THEN result = [error |-> "KeyError"]
            ELSE IF ~args.use_text_annotations /\ ~args.label_color   \* color_map unbound
            THEN result = [error |-> "NameError"]
            ELSE IF ~args.use_text_annotations /\ Len(label_colors) \notin {0, 1, n_coords}
            THEN result = [error |-> "ValueError"]      \* scatter: c does not match x, y
            ELSE result =
                    [n_coords |-> n_coords,
                     top_indices |-> top_indices,
                     labels_to_annotate |-> labels_to_annotate,
                     colors |-> IF args.label_color THEN label_colors
                                ELSE [k \in 1..Len(labels_to_annotate) |-> "black"],
                     scatter_colors |-> IF args.use_text_annotations THEN None
                                        ELSE label_colors,
                     legend |-> IF args.use_text_annotations THEN None ELSE color_map]

PlotSimilarities ==
    /\ pc = "call"
    /\ args.fn = "plot_similarities"
    /\ LET matrix == IF args.is_documents THEN args.tfidf_matrix
                     ELSE Transpose(args.tfidf_matrix)
           perplexity == SimilaritiesPerplexity(Len(args.labels))
       IN  \/ /\ args.method = "tsne"
              /\ embed_calls' = <<[kind |-> "tsne", perplexity |-> perplexity,
                                   n_samples |-> matrix.nrows]>>
              /\ IF TsneFitRaises(perplexity, matrix.nrows)
                 THEN ret' = [error |-> "ValueError"]
                 ELSE AnnotateAndDraw(matrix.nrows, ret')
           \/ /\ args.method = "mds"
              /\ embed_calls' = <<[kind |-> "mds", n_samples |-> matrix.nrows]>>
              /\ IF MdsFitRaises(matrix.nrows)
                 THEN ret' = [error |-> "ValueError"]
                 ELSE AnnotateAndDraw(matrix.nrows, ret')
           \/ /\ args.method \notin {"tsne", "mds"}
              /\ embed_calls' = embed_calls
              /\ ret' = [error |-> "ValueError"]
    /\ pc' = IF "error" \in DOMAIN ret' THEN "raise" ELSE "return"
    /\ UNCHANGED args

MaxTop == 3

LabelNames == {"x", "y"}

\* The items plotted: the documents (rows) or the terms (columns).
ItemCount(m, is_documents) == IF is_documents THEN m.nrows ELSE m.ncols

\* One label per plotted item.
PlotArgs ==
    {a \in [fn : {"plot_similarities"},
            tfidf_matrix : UNION {MatricesOf(d, t) : d \in 1..MaxDocs, t \in 1..MaxTerms},
            labels : SeqsUpTo(LabelNames, Max(MaxDocs, MaxTerms)),
            method : {"tsne", "mds", "pca"},
            is_documents : BOOLEAN,
            label_color : BOOLEAN,
            use_text_annotations : BOOLEAN,
            top_terms : {NoneArg} \cup {IntArg(n) : n \in 0..MaxTop}] :
        Len(a.labels) = ItemCount(a.tfidf_matrix, a.is_documents)}

InitPlot ==
    /\ pc = "call"
    /\ args \in PlotArgs
    /\ ret = None
    /\ embed_calls = <<>>

NextPlot == PlotSimilarities

SpecPlot == InitPlot /\ [][NextPlot]_vars

\* The mean weight of each plotted item, times the number of cells behind
\* it: the row sums for documents, the column sums for terms.
ItemMeans ==
    IF args.is_documents
    THEN [d \in 1..args.tfidf_matrix.nrows |->
             SumOver(args.tfidf_matrix.data[d], 1..args.tfidf_matrix.ncols)]
    ELSE [t \in 1..args.tfidf_matrix.ncols |->
             SumOver([d \in 1..args.tfidf_matrix.nrows |-> args.tfidf_matrix.data[d][t]],
                     1..args.tfidf_matrix.nrows)]

\* C4 as claimed: with top_terms an integer N >= 1 the emphasis subset is
\* the N plotted items of highest mean weight (row means for documents,
\* column means for terms), all valid item indices; with top_terms None it
\* is every item.  Stated for calls that get as far as the annotation: a
\* valid method, two items or more, text annotations.
EmphasisIsTopItemsByMean ==
    (/\ pc # "call"
     /\ args.fn = "plot_similarities"
     /\ args.method \in {"tsne", "mds"}
     /\ Len(args.labels) >= 2
     /\ args.use_text_annotations
     /\ args.top_terms.type = "int" => args.top_terms.value >= 1) =>
        /\ pc = "return"
        /\ LET sel == ret.top_indices
               n == Len(args.labels)
           IN  IF args.top_terms.type = "int"
               THEN /\ Len(sel) = Min(args.top_terms.value, n)
                    /\ Range(sel) \subseteq 1..n
                    /\ \A i, j \in 1..Len(sel) : sel[i] = sel[j] => i = j
                    /\ \A chosen \in Range(sel) : \A other \in (1..n) \ Range(sel) :
                           ItemMeans[chosen] >= ItemMeans[other]
               ELSE sel = [i \in 1..n |-> i]

\* C5 as claimed: plot_similarities raises, and returns no projection,
\* whenever fewer than 2 items are plotted, with "tsne" and with "mds".
FewerThanTwoItemsRaises ==
    (/\ pc # "call"
     /\ args.fn = "plot_similarities"
     /\ args.method \in {"tsne", "mds"}
     /\ Len(args.labels) < 2) => pc = "raise"

\* C10 as claimed: with a valid method and every item emphasized, no
\* combination of label_color and use_text_annotations makes the call fail
\* on the colour map.
ColourMapDefinedOnEveryPath ==
    (/\ pc # "call"
     /\ args.fn = "plot_similarities"
     /\ args.method \in {"tsne", "mds"}
     /\ Len(args.labels) >= 2
     /\ args.top_terms = NoneArg) =>
        /\ pc = "return"
        /\ Len(ret.colors) = Len(args.labels)

(***************************************************************************)
(* The perplexity handed to t-SNE, for up to MaxItems items.               *)
(***************************************************************************)
MaxItems == 125

\* A matrix whose rows have distinct sums, and whose columns have.
SlopedMatrix(nrows, ncols) ==
    [nrows |-> nrows, ncols |-> ncols,
     data |-> [d \in 1..nrows |-> [t \in 1..ncols |-> d + t]]]

PerplexityArgs ==
    {[fn |-> "plot_similarities",
      tfidf_matrix |-> IF docs THEN SlopedMatrix(n, MaxTerms) ELSE SlopedMatrix(MaxDocs, n),
      labels |-> [i \in 1..n |-> "x"],
      method |-> method,
      is_documents |-> docs,
      label_color |-> color,
      use_text_annotations |-> text,
      top_terms |-> NoneArg] :
        n \in 0..MaxItems, docs \in BOOLEAN, method \in {"tsne", "mds", "pca"},
        color \in BOOLEAN, text \in BOOLEAN}
    \cup
    {[fn |-> "plot_word_similarities_tsne",
      tfidf_matrix |-> SlopedMatrix(MaxDocs, n),
      n_highlight |-> h] : n \in 0..MaxItems, h \in 0..MaxTop}

InitPerplexity ==
    /\ pc = "call"
    /\ args \in PerplexityArgs
    /\ ret = None
    /\ embed_calls = <<>>

NextPerplexity == PlotSimilarities \/ PlotWordSimilaritiesTsne

SpecPerplexity == InitPerplexity /\ [][NextPerplexity]_vars

\* The vectors the call embeds: the rows of the matrix for documents, its
\* columns for terms.
VectorsEmbedded ==
    IF args.fn = "plot_similarities" /\ args.is_documents
    THEN args.tfidf_matrix.nrows
    ELSE args.tfidf_matrix.ncols

\* C9: every t-SNE fit, of plot_similarities and of
\* plot_word_similarities_tsne, gets a perplexity of at most
\* min(30, items - 1), and a positive one on 2 items or more.  (Stated for
\* one item or more; a fit on a single term breaks it.)
PerplexityAtMostItemsLessOne ==
    \A k \in 1..Len(embed_calls) :
        (embed_calls[k].kind = "tsne" /\ embed_calls[k].n_samples >= 1) =>
            LET p == embed_calls[k].perplexity
                n == embed_calls[k].n_samples
            IN  /\ p[1] <= 30 * p[2]
                /\ p[1] <= (n - 1) * p[2]
                /\ n >= 2 => p[1] > 0

\* What the code does keep of C9: every t-SNE fit gets the vectors of the
\* items (rows for documents, columns for terms); on 2 items or more its
\* perplexity is at most min(30, items - 1) and positive; in
\* plot_similarities the upper limit holds for any number of items.
PerplexityClamped ==
    \A k \in 1..Len(embed_calls) :
        embed_calls[k].kind = "tsne" =>
            LET p == embed_calls[k].perplexity
                n == embed_calls[k].n_samples
            IN  /\ n = VectorsEmbedded
                /\ p[2] > 0
                /\ (n >= 2 \/ args.fn = "plot_similarities") =>
                       /\ p[1] <= 30 * p[2]
                       /\ p[1] <= (n - 1) * p[2]
                /\ n >= 2 => p[1] > 0

\* 40 documents: the perplexity is held at 30 and the plot is returned.
PerplexityWitness ==
    /\ pc = "return"
    /\ args.fn = "plot_similarities"
    /\ args.is_documents
    /\ embed_calls = <<[kind |-> "tsne", perplexity |-> <<30, 1>>, n_samples |-> 40]>>

(***************************************************************************)
(* Any one call of the module.                                             *)
(***************************************************************************)
Init ==
    \/ InitTopTerms
    \/ InitMds
    \/ InitReport
    \/ InitTfidf
    \/ InitVocabulary
    \/ InitPlot
    \/ InitPerplexity

Next ==
    \/ GetTopTerms
    \/ PlotWordSimilaritiesMds
    \/ CreateReport
    \/ GenerateTfidfMatrix
    \/ AnalyzeVocabulary
    \/ PlotSimilarities
    \/ PlotWordSimilaritiesTsne

Spec == Init /\ [][Next]_vars

=============================================================================
